---- MODULE Spec2Model ----
(***************************************************************************)
(* ThorBondEngine (src/src/lib/thorbondEngine.ts): the memo codec, the     *)
(* action cache with its initialize/refresh lifecycle, the node registry   *)
(* (getNodes) and the whitelist-request reconciliation                     *)
(* (getWhitelistRequests) with its sequential oracle queries.              *)
(*                                                                         *)
(* Conventions for JavaScript values:                                      *)
(*   - a string is a sequence of one-character strings;                    *)
(*   - a number is <<n>> for an integer n, or NaN == <<>> (the inputs      *)
(*     drawn below are integers or NaN, so no fractions arise);            *)
(*   - an optional value (undefined / null / a missing property) is        *)
(*     None == <<>>, a present value x is Some(x) == <<x>>.                *)
(***************************************************************************)
EXTENDS Integers, Sequences, FiniteSets, TLC

VARIABLES
  isInitialized,  \* ThorBondEngine.isInitialized
  actions,        \* ThorBondEngine.actions: the Action cache
  inflight,       \* number of initialize() calls suspended on the indexer fetch
  call,           \* the getWhitelistRequests call in progress (its locals)
  queries,        \* oracle queries answered to the reconciliation call (log)
  ret,            \* outcome of the most recent operation step
  indexer,        \* what the indexer may serve in this behaviour
  codec,          \* the codec round trip under test (SpecCodec only)
  bondCall        \* the direct getBondInfoForUser call (SpecOracle only)

vars ==
  <<isInitialized, actions, inflight, call, queries, ret, indexer, codec,
    bondCall>>

----------------------------------------------------------------------------
(* JavaScript values *)

\* the outcome of one step of an operation, as the client observes it.  The
\* operation and the step come first: outcomes of different operations carry
\* values of different shapes and are told apart by the operation.
Outcome(op, step, arg, outcome) ==
  [op |-> op, step |-> step, arg |-> arg,
   kind |-> outcome.kind, value |-> outcome.value]

None == <<>>
Some(x) == <<x>>

NaN == <<>>
Num(n) == <<n>>
\* global isNaN() on a number
isNaN(x) == x = NaN
\* relational operators: any comparison with NaN is false
Lt(a, b) == a # NaN /\ b # NaN /\ a[1] < b[1]
Gt(a, b) == a # NaN /\ b # NaN /\ a[1] > b[1]
Le(a, b) == a # NaN /\ b # NaN /\ a[1] <= b[1]

Digits == {"0", "1", "2", "3", "4", "5", "6", "7", "8", "9"}

DigitVal(c) ==
  CASE c = "0" -> 0 [] c = "1" -> 1 [] c = "2" -> 2 [] c = "3" -> 3
    [] c = "4" -> 4 [] c = "5" -> 5 [] c = "6" -> 6 [] c = "7" -> 7
    [] c = "8" -> 8 [] c = "9" -> 9

DigitChar(d) ==
  CASE d = 0 -> "0" [] d = 1 -> "1" [] d = 2 -> "2" [] d = 3 -> "3"
    [] d = 4 -> "4" [] d = 5 -> "5" [] d = 6 -> "6" [] d = 7 -> "7"
    [] d = 8 -> "8" [] d = 9 -> "9"

AllDigits(s) == \A k \in 1..Len(s) : s[k] \in Digits

RECURSIVE DigitsVal(_)
DigitsVal(s) ==
  IF s = <<>> THEN 0
  ELSE DigitsVal(SubSeq(s, 1, Len(s) - 1)) * 10 + DigitVal(s[Len(s)])

\* Number(string): the empty string is 0, an optionally signed run of
\* decimal digits is its value, any other text (over the characters used
\* here: no white space, '.', 'e' or 'x') is NaN.
Number(s) ==
  IF s = <<>> THEN Num(0)
  ELSE IF AllDigits(s) THEN Num(DigitsVal(s))
  ELSE IF s[1] \in {"-", "+"} /\ Len(s) > 1 /\ AllDigits(Tail(s))
    THEN Num((IF s[1] = "-" THEN -1 ELSE 1) * DigitsVal(Tail(s)))
  ELSE NaN

\* the longest run of digits that s starts with
RECURSIVE DigitPrefix(_)
DigitPrefix(s) ==
  IF s = <<>> \/ s[1] \notin Digits THEN <<>>
  ELSE <<s[1]>> \o DigitPrefix(Tail(s))

\* parseInt(string): an optional sign and the leading digits; NaN if none
parseInt(s) ==
  LET signed == s # <<>> /\ s[1] \in {"-", "+"}
      body == DigitPrefix(IF signed THEN Tail(s) ELSE s)
  IN IF body = <<>> THEN NaN
     ELSE Num((IF signed /\ s[1] = "-" THEN -1 ELSE 1) * DigitsVal(body))

RECURSIVE NatToString(_)
NatToString(n) ==
  IF n < 10 THEN <<DigitChar(n)>>
  ELSE NatToString(n \div 10) \o <<DigitChar(n % 10)>>

\* `${number}` in a template literal
numberToString(x) ==
  IF x = NaN THEN <<"N", "a", "N">>
  ELSE IF x[1] < 0 THEN <<"-">> \o NatToString(-x[1])
  ELSE NatToString(x[1])

\* new Date(timestamp / 1000000): the time value in ms, truncated toward
\* zero; NaN is the invalid date
DateOf(timestamp) ==
  IF timestamp = NaN THEN NaN
  ELSE IF timestamp[1] >= 0 THEN Num(timestamp[1] \div 1000000)
  ELSE Num(-((-timestamp[1]) \div 1000000))

\* string.split(':')
RECURSIVE Split(_)
Split(s) ==
  IF \A k \in 1..Len(s) : s[k] # ":" THEN <<s>>
  ELSE LET k == CHOOSE j \in 1..Len(s) :
                  s[j] = ":" /\ \A h \in 1..(j - 1) : s[h] # ":"
       IN <<SubSeq(s, 1, k - 1)>> \o Split(SubSeq(s, k + 1, Len(s)))

\* string.startsWith(prefix)
startsWith(s, prefix) ==
  Len(s) >= Len(prefix) /\ SubSeq(s, 1, Len(prefix)) = prefix

TB == <<"T", "B">>
THOR1 == <<"t", "h", "o", "r", "1">>
Colon == <<":">>

\* the prefix check of the encoders, of getBondInfoForUser and of the
\* request decoding
IsThorAddress(a) == startsWith(a, THOR1)

\* !memo: undefined and the empty string are falsy
Falsy(memo) == memo = None \/ memo[1] = <<>>

----------------------------------------------------------------------------
(* Memo codec *)

ListingFields(parts) ==
  [nodeAddress |-> parts[2],
   operatorAddress |-> parts[3],
   minRune |-> Number(parts[4]),
   maxRune |-> Number(parts[5]),
   feePercentage |-> Number(parts[6])]

ListingShape(parts) == Len(parts) = 6 /\ parts[1] = TB

\* parseListingMemo: None stands for null
parseListingMemo(memo) ==
  LET parts == Split(memo)
  IN IF ~ListingShape(parts) THEN None ELSE Some(ListingFields(parts))

Throw(msg) == [kind |-> "throw", value |-> msg]
Return(v) == [kind |-> "return", value |-> v]

createListing(params) ==
  IF ~IsThorAddress(params.nodeAddress)
    THEN Throw("Invalid node address format")
  ELSE IF ~IsThorAddress(params.operatorAddress)
    THEN Throw("Invalid operator address format")
  ELSE IF Le(params.minRune, Num(0))
    THEN Throw("Minimum RUNE amount must be greater than 0")
  ELSE IF Le(params.maxRune, params.minRune)
    THEN Throw("Maximum RUNE amount must be greater than minimum amount")
  ELSE IF Lt(params.feePercentage, Num(0)) \/ Gt(params.feePercentage, Num(100))
    THEN Throw("Fee percentage must be between 0 and 100")
  ELSE Return(TB \o Colon \o params.nodeAddress \o Colon
              \o params.operatorAddress \o Colon
              \o numberToString(params.minRune) \o Colon
              \o numberToString(params.maxRune) \o Colon
              \o numberToString(params.feePercentage))

createWhitelistRequest(params) ==
  IF ~IsThorAddress(params.nodeAddress)
    THEN Throw("Invalid node address format")
  ELSE IF ~IsThorAddress(params.userAddress)
    THEN Throw("Invalid user address format")
  ELSE IF Le(params.amount, Num(0))
    THEN Throw("Amount must be greater than 0")
  ELSE Return(TB \o Colon \o params.nodeAddress \o Colon
              \o params.userAddress \o Colon \o numberToString(params.amount))

RequestShape_AnyTag(parts) == Len(parts) = 4

RequestShape(parts) == Len(parts) = 4 /\ parts[1] = TB

\* any amount passes
AmountOk_Any(amount) == TRUE

\* isNaN(amount) || amount <= 0 is the reason to skip
AmountOk(amount) == ~(isNaN(amount) \/ Le(amount, Num(0)))

\* the request decoding at the head of the getWhitelistRequests loop:
\* None stands for `continue`
decodeRequest(memo) ==
  IF Falsy(memo) THEN None
  ELSE LET parts == Split(memo[1])
       IN IF ~RequestShape(parts) THEN None
          ELSE IF ~IsThorAddress(parts[2]) \/ ~IsThorAddress(parts[3]) THEN None
          ELSE IF ~AmountOk(Number(parts[4])) THEN None
          ELSE Some([nodeAddress |-> parts[2],
                     userAddress |-> parts[3],
                     amount |-> Number(parts[4])])

----------------------------------------------------------------------------
(* Action ingestion and the node registry *)

\* action.metadata?.send?.memo
MemoOf(action) ==
  IF action.metadata.send = None THEN None
  ELSE Some(action.metadata.send[1].memo)

\* the pass-through fields (height, in, out, pools, status, metadata) are
\* read by no operation and are left out of the record
transformMidgardAction(action) ==
  [type |-> action.type,
   data |-> [memo |-> MemoOf(action)],
   timestamp |-> parseInt(action.date)]

\* response.data.actions || [], mapped
MapActions(response) ==
  LET raw == IF response.actions = None THEN <<>> ELSE response.actions[1]
  IN [k \in 1..Len(raw) |-> transformMidgardAction(raw[k])]

NodeOf(listingMemo, action) ==
  [operator |-> listingMemo.operatorAddress,
   address |-> listingMemo.nodeAddress,
   bondingCapacity |-> listingMemo.maxRune,
   minimumBond |-> listingMemo.minRune,
   feePercentage |-> listingMemo.feePercentage,
   createdAt |-> DateOf(action.timestamp)]

AlreadyProcessed_Never(processedAddresses, nodeAddress) == FALSE

\* processedAddresses.has(nodeAddress)
AlreadyProcessed(processedAddresses, nodeAddress) ==
  nodeAddress \in processedAddresses

\* a later listing of a processed address replaces the Node
NodesCallback_LastWins(st, action) ==
  LET memo == action.data.memo
  IN IF Falsy(memo) THEN st
     ELSE LET listingMemo == parseListingMemo(memo[1])
          IN IF listingMemo = None THEN st
             ELSE IF AlreadyProcessed(st.processedAddresses,
                                      listingMemo[1].nodeAddress)
               THEN [st EXCEPT !.nodes =
                       [k \in 1..Len(st.nodes) |->
                          IF st.nodes[k].address = listingMemo[1].nodeAddress
                            THEN NodeOf(listingMemo[1], action)
                            ELSE st.nodes[k]]]
             ELSE [nodes |-> Append(st.nodes, NodeOf(listingMemo[1], action)),
                   processedAddresses |->
                     st.processedAddresses \cup {listingMemo[1].nodeAddress}]

\* one call of the forEach callback of getNodes
NodesCallback(st, action) ==
  LET memo == action.data.memo
  IN IF Falsy(memo) THEN st
     ELSE LET listingMemo == parseListingMemo(memo[1])
          IN IF listingMemo = None THEN st
             ELSE IF AlreadyProcessed(st.processedAddresses,
                                      listingMemo[1].nodeAddress) THEN st
             ELSE [nodes |-> Append(st.nodes, NodeOf(listingMemo[1], action)),
                   processedAddresses |->
                     st.processedAddresses \cup {listingMemo[1].nodeAddress}]

RECURSIVE NodesForEach(_, _, _)
NodesForEach(acts, k, st) ==
  IF k > Len(acts) THEN st
  ELSE NodesForEach(acts, k + 1, NodesCallback(st, acts[k]))

\* the body of getNodes after the initialization check
BuildNodes(acts) ==
  NodesForEach(acts, 1, [nodes |-> <<>>, processedAddresses |-> {}]).nodes

NotInitialized == "ThorBondEngine not initialized"

Ready_Unchecked == TRUE

\* the initialization check of the read operations
Ready == isInitialized

getNodes ==
  IF ~Ready THEN Throw(NotInitialized) ELSE Return(BuildNodes(actions))

getActions ==
  IF ~Ready THEN Throw(NotInitialized) ELSE Return(actions)

----------------------------------------------------------------------------
(* Bond-state oracle client *)

\* every response is read as one without a provider list
ProvidersOf_Empty(response) == <<>>

\* response.data?.bond_providers?.providers ?? []
ProvidersOf(response) ==
  IF response.data = None THEN <<>>
  ELSE IF response.data[1].bond_providers = None THEN <<>>
  ELSE IF response.data[1].bond_providers[1].providers = None THEN <<>>
  ELSE response.data[1].bond_providers[1].providers[1]

BondInfoOf_NotFound(response, userAddress) ==
  [isBondProvider |-> FALSE, bond |-> Num(0)]

\* getBondInfoForUser after a successful response
BondInfoOf(response, userAddress) ==
  LET bondProviders == ProvidersOf(response)
      hits == {k \in 1..Len(bondProviders) :
                 bondProviders[k].bond_address = userAddress}
  IN IF hits # {}
       THEN LET provider == bondProviders[CHOOSE k \in hits :
                                            \A h \in hits : k <= h]
            IN [isBondProvider |-> TRUE, bond |-> Number(provider.bond)]
       ELSE [isBondProvider |-> FALSE, bond |-> Num(0)]

\* the user address goes unchecked
BondArgsOk_NodeOnly(nodeAddress, userAddress) == IsThorAddress(nodeAddress)

\* the argument check of getBondInfoForUser
BondArgsOk(nodeAddress, userAddress) ==
  IsThorAddress(nodeAddress) /\ IsThorAddress(userAddress)

----------------------------------------------------------------------------
(* getWhitelistRequests *)

\* the upgrade to 'bonded' is lost
StatusOf_NeverBonded(bondInfo) ==
  IF bondInfo.isBondProvider THEN "approved" ELSE "pending"

StatusOf(bondInfo) ==
  LET s0 == "pending"
      s1 == IF bondInfo.isBondProvider THEN "approved" ELSE s0
  IN IF bondInfo.isBondProvider /\ Gt(bondInfo.bond, Num(0))
       THEN "bonded" ELSE s1

\* this.getNodes().find(node => node.address === nodeAddress)
FindNode(nodes, nodeAddress) ==
  LET hits == {k \in 1..Len(nodes) : nodes[k].address = nodeAddress}
  IN IF hits = {} THEN None
     ELSE Some(nodes[CHOOSE k \in hits : \A h \in hits : k <= h])

Qualifies_UserOnly(userAddress, node, connectedAddress) ==
  userAddress = connectedAddress

\* userAddress === connectedAddress || node.operator === connectedAddress
Qualifies(userAddress, node, connectedAddress) ==
  userAddress = connectedAddress \/ node.operator = connectedAddress

RequestOf(c, status) ==
  [node |-> c.node,
   walletAddress |-> c.userAddress,
   intendedBondAmount |-> c.amount,
   status |-> status,
   createdAt |-> DateOf(c.iter[c.i].timestamp)]

PushUser(c, status) ==
  IF c.userAddress = c.connectedAddress
    THEN Append(c.requestsUser, RequestOf(c, status)) ELSE c.requestsUser

PushOperator(c, status) ==
  IF c.node.operator = c.connectedAddress
    THEN Append(c.requestsOperator, RequestOf(c, status))
    ELSE c.requestsOperator

IdleCall == [pc |-> "idle"]

\* the call has settled with `outcome`; its locals are kept for inspection
Finished(c, outcome) == [c EXCEPT !.pc = "done", !.out = outcome]

RECURSIVE Loop(_)

\* the request of an unknown node is skipped
OnMissingNode_Skip(c) == Loop([c EXCEPT !.i = c.i + 1])

\* if (!node) throw new Error('Node not found')
OnMissingNode(c) == Finished(c, Throw("Node not found"))

\* The loop of getWhitelistRequests from action c.i on, run until it
\* suspends on an oracle query (pc = "await"), returns or throws
\* (pc = "done").  c.iter is the array the for-of loop iterates, taken when
\* the loop started; this.getNodes() reads the engine's current fields.
Loop(c) ==
  IF c.i > Len(c.iter)
    THEN Finished(c, Return([operator |-> c.requestsOperator,
                             user |-> c.requestsUser]))
  ELSE
    LET req == decodeRequest(c.iter[c.i].data.memo)
    IN IF req = None THEN Loop([c EXCEPT !.i = c.i + 1])
       ELSE IF getNodes.kind = "throw" THEN Finished(c, getNodes)
       ELSE
         LET node == FindNode(getNodes.value, req[1].nodeAddress)
         IN IF node = None THEN OnMissingNode(c)
            ELSE IF ~Qualifies(req[1].userAddress, node[1], c.connectedAddress)
              THEN Loop([c EXCEPT !.i = c.i + 1])
            ELSE IF ~BondArgsOk(node[1].address, req[1].userAddress)
              THEN Finished(c, Throw("Invalid THORChain address"))
            ELSE [c EXCEPT !.pc = "await",
                           !.node = node[1],
                           !.userAddress = req[1].userAddress,
                           !.amount = req[1].amount]

NewCall(connectedAddress) ==
  [pc |-> "run", connectedAddress |-> connectedAddress, iter |-> actions,
   i |-> 1, requestsUser |-> <<>>, requestsOperator |-> <<>>,
   node |-> None, userAddress |-> None, amount |-> NaN, out |-> None]

\* the action after the classified request is passed over
Resume_SkipNext(c, bondInfo) ==
  Loop([c EXCEPT !.pc = "run",
                 !.requestsUser = PushUser(c, StatusOf(bondInfo)),
                 !.requestsOperator = PushOperator(c, StatusOf(bondInfo)),
                 !.i = c.i + 2])

\* the continuation after `await this.getBondInfoForUser(...)` resolved
Resume(c, bondInfo) ==
  Loop([c EXCEPT !.pc = "run",
                 !.requestsUser = PushUser(c, StatusOf(bondInfo)),
                 !.requestsOperator = PushOperator(c, StatusOf(bondInfo)),
                 !.i = c.i + 1])

----------------------------------------------------------------------------
(* Inputs *)

\* the longest feed a fetch returns to a client that awaits every call
MaxFeed == 3
\* the longest feed a fetch returns when calls overlap
MaxFeedOverlap == 2
\* the most initialize() calls suspended on their fetch at once
MaxInFlight == 2

NodeA == THOR1 \o <<"N">>
NodeB == THOR1 \o <<"M">>
Operator == THOR1 \o <<"O">>
User == THOR1 \o <<"U">>
Stranger == THOR1 \o <<"X">>
PlainNode == <<"t", "h", "o", "r", "N", "O", "D", "E">>
PlainOp == <<"t", "h", "o", "r", "O", "P">>
PlainUser == <<"t", "h", "o", "r", "U", "S", "E", "R">>

RECURSIVE Join(_)
Join(fields) ==
  IF Len(fields) = 1 THEN fields[1]
  ELSE fields[1] \o Colon \o Join(Tail(fields))

Nat2Str(n) == NatToString(n)

Raw(ms, memo) ==
  [type |-> "send",
   date |-> NatToString(ms * 1000000),
   metadata |-> [send |-> IF memo = None THEN None
                          ELSE Some([memo |-> memo[1]])]]

ListingText(node, op, min, max, fee) ==
  Join(<<TB, node, op, Nat2Str(min), Nat2Str(max), Nat2Str(fee)>>)

RequestText(node, user, amount) == Join(<<TB, node, user, Nat2Str(amount)>>)

ListingA == Raw(1, Some(ListingText(NodeA, Operator, 100, 10000, 5)))
\* NodeA listed again, by another operator on other terms
ListingA2 == Raw(2, Some(ListingText(NodeA, User, 200, 300, 7)))
ListingB == Raw(3, Some(ListingText(NodeB, Operator, 1, 2, 0)))
\* a 6-field TB memo for NodeA whose minimum is not a number, whose maximum
\* does not exceed it and whose fee is above 100
ListingBad ==
  Raw(4, Some(Join(<<TB, NodeA, User, <<"x">>, <<"5">>, <<"2", "0", "0">>>>)))
ListingPlain == Raw(1, Some(ListingText(PlainNode, PlainOp, 100, 10000, 5)))

RequestUser == Raw(5, Some(RequestText(NodeA, User, 500)))
\* the operator of NodeA asks to bond to the own node
RequestOperator == Raw(6, Some(RequestText(NodeA, Operator, 20)))
\* a request for NodeB
RequestB == Raw(7, Some(RequestText(NodeB, User, 500)))
RequestPlain == Raw(2, Some(RequestText(PlainNode, PlainUser, 500)))
\* a 4-field TB memo for NodeB whose amount is 0
RequestZero == Raw(8, Some(Join(<<TB, NodeB, User, <<"0">>>>)))

\* 4-field TB memos for NodeB whose amount is no number, respectively below 0
RequestNaN == Raw(8, Some(Join(<<TB, NodeB, User, <<"a", "b", "c">>>>)))
RequestNegative == Raw(8, Some(Join(<<TB, NodeB, User, <<"-", "5">>>>)))

\* traffic that is not of the protocol
NoMemo == Raw(9, None)
EmptyMemo == Raw(9, Some(<<>>))
OtherTag4 == Raw(9, Some(Join(<<<<"T", "X">>, NodeB, User, <<"5">>>>)))
OtherTag6 ==
  Raw(9, Some(Join(<<<<"T", "X">>, NodeB, User, <<"1">>, <<"2">>, <<"0">>>>)))
FiveFields == Raw(9, Some(Join(<<TB, NodeB, User, <<"5">>, <<"1">>>>)))

\* What the protocol address has received, as the indexer may report it:
\* each behaviour draws one of these sets, and every fetch returns a
\* sequence of at most MaxFeed of its raw actions.
Indexers ==
  {{ListingA, RequestUser},
   {ListingA, RequestOperator},
   {ListingA, RequestB},
   {ListingA, ListingA2}}

\* the same for a client that awaits every call
SequentialIndexers ==
  {{ListingA, ListingA2, ListingB, ListingBad},
   {ListingA, RequestUser, RequestOperator},
   {ListingA, RequestB, RequestUser},
   {ListingBad, ListingA, RequestUser},
   {ListingA, RequestUser, RequestZero},
   {ListingA, RequestUser, RequestNaN, RequestNegative},
   {ListingA, RequestUser, NoMemo},
   {ListingA, RequestUser, EmptyMemo},
   {ListingA, RequestUser, OtherTag4},
   {ListingA, RequestUser, OtherTag6},
   {ListingA, RequestUser, FiveFields},
   {ListingPlain, RequestPlain, ListingA}}

Feeds(ix) == UNION {[1..n -> ix.pool] : n \in 0..ix.max}

\* the indexer's answers to GET /actions; ok = FALSE is a transport or
\* non-2xx failure
IndexerResponses(ix) ==
  {[ok |-> FALSE, actions |-> None], [ok |-> TRUE, actions |-> None]}
    \cup {[ok |-> TRUE, actions |-> Some(f)] : f \in Feeds(ix)}

Provider(address, bond) == [bond_address |-> address, bond |-> bond]

NodeData(bondProviders) == [ok |-> TRUE, data |-> Some([bond_providers |-> bondProviders])]

\* the node-state service's answers to GET /node/{nodeAddress}
OracleResponses ==
  {[ok |-> FALSE, data |-> None],
   NodeData(None),
   NodeData(Some([providers |-> Some(<<Provider(User, <<"0">>),
                                        Provider(Operator, <<"5", "0">>)>>)])),
   NodeData(Some([providers |-> Some(<<Provider(Operator, <<"0">>),
                                        Provider(User, <<"5", "0">>)>>)]))}

Viewers == {User, Operator, Stranger, PlainUser}

----------------------------------------------------------------------------
(* Operations *)

Awaiting == [kind |-> "await", value |-> None]

\* a settled reconciliation call and its query log are kept until the next
\* operation step
Settle ==
  /\ call' = IF call.pc = "await" THEN call ELSE IdleCall
  /\ queries' = IF call.pc = "await" THEN queries ELSE <<>>

\* initialize() fetches again although the engine is Ready
InitializeReady_Refetch ==
  /\ isInitialized
  /\ inflight < MaxInFlight
  /\ inflight' = inflight + 1
  /\ ret' = Outcome("initialize", "invoke", None, Awaiting)
  /\ Settle
  /\ UNCHANGED <<isInitialized, actions, indexer, codec, bondCall>>

\* initialize() on a Ready engine
InitializeReady ==
  /\ isInitialized
  /\ ret' = Outcome("initialize", "invoke", None, Return(None))
  /\ Settle
  /\ UNCHANGED <<isInitialized, actions, inflight, indexer, codec,
               bondCall>>

\* initialize() otherwise: the fetch is issued and the call suspends
InitializeFetch ==
  /\ ~isInitialized
  /\ inflight < MaxInFlight
  /\ inflight' = inflight + 1
  /\ ret' = Outcome("initialize", "invoke", None, Awaiting)
  /\ Settle
  /\ UNCHANGED <<isInitialized, actions, indexer, codec, bondCall>>

\* refreshActions() that clears the flag and returns without a fetch
refreshActions_NoFetch ==
  /\ inflight < MaxInFlight
  /\ isInitialized' = FALSE
  /\ ret' = Outcome("refreshActions", "invoke", None, Return(None))
  /\ Settle
  /\ UNCHANGED <<actions, inflight, indexer, codec, bondCall>>

\* refreshActions(): clears the flag, then initialize() issues the fetch
refreshActions ==
  /\ inflight < MaxInFlight
  /\ isInitialized' = FALSE
  /\ inflight' = inflight + 1
  /\ ret' = Outcome("refreshActions", "invoke", None, Awaiting)
  /\ Settle
  /\ UNCHANGED <<actions, indexer, codec, bondCall>>

\* the new actions are appended to the cache
FetchReturns_Merge(response) ==
  /\ inflight > 0
  /\ response.ok
  /\ actions' = actions \o MapActions(response)
  /\ isInitialized' = TRUE
  /\ inflight' = inflight - 1
  /\ ret' = Outcome("initialize", "resume", response, Return(None))
  /\ Settle
  /\ UNCHANGED <<indexer, codec, bondCall>>

\* a suspended initialize() resumes with the indexer's response
FetchReturns(response) ==
  /\ inflight > 0
  /\ response.ok
  /\ actions' = MapActions(response)
  /\ isInitialized' = TRUE
  /\ inflight' = inflight - 1
  /\ ret' = Outcome("initialize", "resume", response, Return(None))
  /\ Settle
  /\ UNCHANGED <<indexer, codec, bondCall>>

\* a failed fetch empties the cache
FetchFails_ClearsCache(response) ==
  /\ inflight > 0
  /\ ~response.ok
  /\ actions' = <<>>
  /\ inflight' = inflight - 1
  /\ ret' = Outcome("initialize", "resume", response, Throw("Request failed"))
  /\ Settle
  /\ UNCHANGED <<isInitialized, indexer, codec, bondCall>>

\* axios.get rejects: initialize() rejects with that error
FetchFails(response) ==
  /\ inflight > 0
  /\ ~response.ok
  /\ inflight' = inflight - 1
  /\ ret' = Outcome("initialize", "resume", response, Throw("Request failed"))
  /\ Settle
  /\ UNCHANGED <<isInitialized, actions, indexer, codec, bondCall>>

GetNodesCall ==
  /\ ret' = Outcome("getNodes", "invoke", None, getNodes)
  /\ Settle
  /\ UNCHANGED <<isInitialized, actions, inflight, indexer, codec,
               bondCall>>

GetActionsCall ==
  /\ ret' = Outcome("getActions", "invoke", None, getActions)
  /\ Settle
  /\ UNCHANGED <<isInitialized, actions, inflight, indexer, codec,
               bondCall>>

CallOutcome(c) == IF c.pc = "await" THEN Awaiting ELSE c.out

\* getWhitelistRequests(connectedAddress), up to its first oracle query
getWhitelistRequests(connectedAddress) ==
  /\ call.pc # "await"
  /\ call' = IF ~Ready
               THEN Finished(NewCall(connectedAddress), Throw(NotInitialized))
               ELSE Loop(NewCall(connectedAddress))
  /\ queries' = <<>>
  /\ ret' = Outcome("getWhitelistRequests", "invoke", connectedAddress,
                    CallOutcome(call'))
  /\ UNCHANGED <<isInitialized, actions, inflight, indexer, codec,
               bondCall>>

\* one answered query: the position of the request it was issued for, the
\* arguments of getBondInfoForUser, the response and the value it returned
\* (None when it threw)
Query(c, response, bondInfo) ==
  [at |-> c.i, nodeAddress |-> c.node.address, userAddress |-> c.userAddress,
   operator |-> c.node.operator, response |-> response, bondInfo |-> bondInfo]

\* the node-state service answers the pending query
OracleReturns(response) ==
  /\ call.pc = "await"
  /\ response.ok
  /\ call' = Resume(call, BondInfoOf(response, call.userAddress))
  /\ queries' = Append(queries,
                       Query(call, response,
                             Some(BondInfoOf(response, call.userAddress))))
  /\ ret' = Outcome("getWhitelistRequests", "resume", call.connectedAddress,
                    CallOutcome(call'))
  /\ UNCHANGED <<isInitialized, actions, inflight, indexer, codec,
               bondCall>>

\* a failed query counts as "not a bond provider" and the loop goes on
OracleFails_Pending(response) ==
  /\ call.pc = "await"
  /\ ~response.ok
  /\ call' = Resume(call, [isBondProvider |-> FALSE, bond |-> Num(0)])
  /\ queries' = Append(queries, Query(call, response, None))
  /\ ret' = Outcome("getWhitelistRequests", "resume", call.connectedAddress,
                    CallOutcome(call'))
  /\ UNCHANGED <<isInitialized, actions, inflight, indexer, codec,
                 bondCall>>

\* the query fails: getBondInfoForUser catches and rethrows
OracleFails(response) ==
  /\ call.pc = "await"
  /\ ~response.ok
  /\ call' = Finished(call, Throw("Failed to retrieve bond info"))
  /\ queries' = Append(queries, Query(call, response, None))
  /\ ret' = Outcome("getWhitelistRequests", "resume", call.connectedAddress,
                    CallOutcome(call'))
  /\ UNCHANGED <<isInitialized, actions, inflight, indexer, codec,
               bondCall>>

NoCodec == [pc |-> "none"]
NoBond == [pc |-> "none"]

Start == Outcome("constructor", "invoke", None, Return(None))

Init ==
  /\ isInitialized = FALSE
  /\ actions = <<>>
  /\ inflight = 0
  /\ call = IdleCall
  /\ queries = <<>>
  /\ ret = Start
  /\ indexer \in {[pool |-> p, max |-> MaxFeedOverlap] : p \in Indexers}
  /\ codec = NoCodec
  /\ bondCall = NoBond

Next ==
  \/ InitializeReady
  \/ InitializeFetch
  \/ refreshActions
  \/ \E response \in IndexerResponses(indexer) : FetchReturns(response)
  \/ \E response \in IndexerResponses(indexer) : FetchFails(response)
  \/ GetNodesCall
  \/ GetActionsCall
  \/ \E connectedAddress \in Viewers : getWhitelistRequests(connectedAddress)
  \/ \E response \in OracleResponses : OracleReturns(response)
  \/ \E response \in OracleResponses : OracleFails(response)

Spec == Init /\ [][Next]_vars

\* Overlapping calls over feeds long enough for a reconciliation call to
\* go on after its first oracle query: a listing and requests for its node
OverlapIndexers == {{ListingA, RequestUser}}

InitOverlap ==
  /\ isInitialized = FALSE
  /\ actions = <<>>
  /\ inflight = 0
  /\ call = IdleCall
  /\ queries = <<>>
  /\ ret = Start
  /\ indexer \in {[pool |-> p, max |-> MaxFeed] : p \in OverlapIndexers}
  /\ codec = NoCodec
  /\ bondCall = NoBond

SpecOverlap == InitOverlap /\ [][Next]_vars

\* An indexer that answers every fetch with a successful response, and an
\* event loop that resumes the suspended initialize() once the response is
\* there: the lifecycle operations in any interleaving, no fetch fails, and
\* a pending fetch does not stay pending for ever.
NextResponsive ==
  \/ InitializeReady
  \/ InitializeFetch
  \/ refreshActions
  \/ \E response \in IndexerResponses(indexer) : FetchReturns(response)
  \/ GetActionsCall

FetchReturnsSome == \E response \in IndexerResponses(indexer) : FetchReturns(response)

SpecResponsive ==
  Init /\ [][NextResponsive]_vars /\ WF_vars(FetchReturnsSome)

\* A client that awaits every call before it makes the next one: no
\* operation is invoked while a fetch or a reconciliation call is pending.
Quiescent == inflight = 0 /\ call.pc # "await"

InitSequential ==
  /\ isInitialized = FALSE
  /\ actions = <<>>
  /\ inflight = 0
  /\ call = IdleCall
  /\ queries = <<>>
  /\ ret = Start
  /\ indexer \in {[pool |-> p, max |-> MaxFeed] : p \in SequentialIndexers}
  /\ codec = NoCodec
  /\ bondCall = NoBond

NextSequential ==
  \/ Quiescent /\ InitializeReady
  \/ Quiescent /\ InitializeFetch
  \/ Quiescent /\ refreshActions
  \/ \E response \in IndexerResponses(indexer) : FetchReturns(response)
  \/ \E response \in IndexerResponses(indexer) : FetchFails(response)
  \/ Quiescent /\ GetNodesCall
  \/ Quiescent /\ GetActionsCall
  \/ \E connectedAddress \in Viewers :
       Quiescent /\ getWhitelistRequests(connectedAddress)
  \/ \E response \in OracleResponses : OracleReturns(response)
  \/ \E response \in OracleResponses : OracleFails(response)

SpecSequential == InitSequential /\ [][NextSequential]_vars

----------------------------------------------------------------------------
(* The codec alone: parameters are drawn, encoded, and the memo decoded *)

ColonAddress == THOR1 \o <<"a", ":", "b">>

AddressInputs == {NodeA, User, ColonAddress, PlainNode}

NumberInputs == {NaN, Num(-1), Num(0), Num(5), Num(100), Num(101), Num(10000)}

ListingInputs ==
  [nodeAddress : AddressInputs, operatorAddress : AddressInputs,
   minRune : NumberInputs, maxRune : NumberInputs,
   feePercentage : NumberInputs]

RequestInputs ==
  [nodeAddress : AddressInputs, userAddress : AddressInputs,
   amount : NumberInputs]

CodecInput(kind, params) ==
  [pc |-> "input", kind |-> kind, params |-> params,
   memo |-> None, decoded |-> None]

EncodeListing ==
  /\ codec.pc = "input" /\ codec.kind = "listing"
  /\ codec' = [codec EXCEPT !.pc = "encoded",
                            !.memo = createListing(codec.params)]
  /\ UNCHANGED <<isInitialized, actions, inflight, call, queries, ret, indexer,
               bondCall>>

DecodeListing ==
  /\ codec.pc = "encoded" /\ codec.kind = "listing"
  /\ codec.memo.kind = "return"
  /\ codec' = [codec EXCEPT !.pc = "decoded",
                            !.decoded = parseListingMemo(codec.memo.value)]
  /\ UNCHANGED <<isInitialized, actions, inflight, call, queries, ret, indexer,
               bondCall>>

EncodeRequest ==
  /\ codec.pc = "input" /\ codec.kind = "request"
  /\ codec' = [codec EXCEPT !.pc = "encoded",
                            !.memo = createWhitelistRequest(codec.params)]
  /\ UNCHANGED <<isInitialized, actions, inflight, call, queries, ret, indexer,
               bondCall>>

DecodeRequest ==
  /\ codec.pc = "encoded" /\ codec.kind = "request"
  /\ codec.memo.kind = "return"
  /\ codec' = [codec EXCEPT !.pc = "decoded",
                            !.decoded = decodeRequest(Some(codec.memo.value))]
  /\ UNCHANGED <<isInitialized, actions, inflight, call, queries, ret, indexer,
               bondCall>>

InitCodec ==
  /\ isInitialized = FALSE
  /\ actions = <<>>
  /\ inflight = 0
  /\ call = IdleCall
  /\ queries = <<>>
  /\ ret = Start
  /\ indexer = [pool |-> {}, max |-> 0]
  /\ codec \in {CodecInput("listing", p) : p \in ListingInputs}
                 \cup {CodecInput("request", p) : p \in RequestInputs}
  /\ bondCall = NoBond

NextCodec ==
  \/ EncodeListing
  \/ DecodeListing
  \/ EncodeRequest
  \/ DecodeRequest

SpecCodec == InitCodec /\ [][NextCodec]_vars

----------------------------------------------------------------------------
(* getBondInfoForUser alone: called directly with drawn arguments *)

BondAddressInputs == {NodeA, User, Operator, PlainNode, PlainUser}

\* the node-state service's answers to a direct call: those above, a body
\* without data, a body without bond_providers.providers, an empty list, a
\* list that names the user twice, a bond that is no number
DirectResponses ==
  OracleResponses \cup
    {[ok |-> TRUE, data |-> None],
     NodeData(Some([providers |-> None])),
     NodeData(Some([providers |-> Some(<<>>)])),
     NodeData(Some([providers |-> Some(<<Provider(Operator, <<"7">>),
                                          Provider(User, <<"3">>),
                                          Provider(User, <<"0">>)>>)])),
     NodeData(Some([providers |-> Some(<<Provider(User, <<"x">>)>>)]))}

BondInput(nodeAddress, userAddress) ==
  [pc |-> "input", nodeAddress |-> nodeAddress, userAddress |-> userAddress,
   requests |-> <<>>, response |-> None, out |-> None]

\* getBondInfoForUser(nodeAddress, userAddress) up to its axios.get;
\* requests logs the node addresses asked of the node-state service
GetBondInfoCall ==
  /\ bondCall.pc = "input"
  /\ bondCall' =
       IF ~BondArgsOk(bondCall.nodeAddress, bondCall.userAddress)
         THEN [bondCall EXCEPT !.pc = "done",
                               !.out = Throw("Invalid THORChain address")]
         ELSE [bondCall EXCEPT !.pc = "await",
                               !.requests = <<bondCall.nodeAddress>>]
  /\ UNCHANGED <<isInitialized, actions, inflight, call, queries, ret, indexer,
                 codec>>

\* the response arrives
BondInfoReturns(response) ==
  /\ bondCall.pc = "await"
  /\ response.ok
  /\ bondCall' =
       [bondCall EXCEPT
          !.pc = "done",
          !.response = Some(response),
          !.out = Return(BondInfoOf(response, bondCall.userAddress))]
  /\ UNCHANGED <<isInitialized, actions, inflight, call, queries, ret, indexer,
                 codec>>

\* axios.get rejects (transport or non-2xx): caught and rethrown
BondInfoFails(response) ==
  /\ bondCall.pc = "await"
  /\ ~response.ok
  /\ bondCall' =
       [bondCall EXCEPT !.pc = "done",
                        !.response = Some(response),
                        !.out = Throw("Failed to retrieve bond info")]
  /\ UNCHANGED <<isInitialized, actions, inflight, call, queries, ret, indexer,
                 codec>>

InitOracle ==
  /\ isInitialized = FALSE
  /\ actions = <<>>
  /\ inflight = 0
  /\ call = IdleCall
  /\ queries = <<>>
  /\ ret = Start
  /\ indexer = [pool |-> {}, max |-> 0]
  /\ codec = NoCodec
  /\ bondCall \in {BondInput(n, u) : n \in BondAddressInputs,
                                     u \in BondAddressInputs}

NextOracle ==
  \/ GetBondInfoCall
  \/ \E response \in DirectResponses : BondInfoReturns(response)
  \/ \E response \in DirectResponses : BondInfoFails(response)

SpecOracle == InitOracle /\ [][NextOracle]_vars

----------------------------------------------------------------------------
(* Properties *)

ReadOps == {"getNodes", "getActions", "getWhitelistRequests"}

FailedNotInitialized(r) == r.kind = "throw" /\ r.value = NotInitialized

\* C1: a read operation (getNodes, getActions, getWhitelistRequests) that is
\* invoked while the engine is not Ready fails with the not-initialized
\* error; invoked while it is Ready, getNodes and getActions return and
\* getWhitelistRequests is not refused with that error.
C1_ReadsNeedReady ==
  (ret.op \in ReadOps /\ ret.step = "invoke") =>
     /\ FailedNotInitialized(ret) <=> ~isInitialized
     /\ (isInitialized /\ ret.op \in {"getNodes", "getActions"})
          => ret.kind = "return"

\* a read is refused during a refresh of an engine that was Ready before,
\* its fetch still in flight
C1_Witness ==
  /\ ret.op = "getWhitelistRequests" /\ ret.step = "invoke"
  /\ FailedNotInitialized(ret)
  /\ inflight > 0
  /\ actions # <<>>

\* the last operation step was a getNodes() that returned
NodesReturned ==
  ret.op = "getNodes" /\ ret.step = "invoke" /\ ret.kind = "return"

\* the action's memo decodes as a listing
IsListing(action) ==
  ~Falsy(action.data.memo) /\ parseListingMemo(action.data.memo[1]) # None

ListingOf(action) == parseListingMemo(action.data.memo[1])[1]

\* the node addresses that occur in decodable listing memos of the cache
ListedAddresses(acts) ==
  {ListingOf(acts[k]).nodeAddress : k \in {j \in 1..Len(acts) : IsListing(acts[j])}}

\* C2: the registry returned by getNodes holds no two Nodes with the same
\* address, and holds a Node for exactly the node addresses that occur in
\* decodable listing memos of the cache.
C2_OneNodePerAddress ==
  NodesReturned =>
     /\ \A i, j \in 1..Len(ret.value) :
          ret.value[i].address = ret.value[j].address => i = j
     /\ {ret.value[k].address : k \in 1..Len(ret.value)}
          = ListedAddresses(actions)

\* a cache of three listings, two of them for one node, yields two Nodes
C2_Witness ==
  /\ NodesReturned
  /\ Len(actions) = 3
  /\ \A k \in 1..3 : IsListing(actions[k])
  /\ Cardinality(ListedAddresses(actions)) = 2
  /\ Len(ret.value) = 2

\* the position of the first listing of `address` in the cache
FirstListing(acts, address) ==
  CHOOSE k \in 1..Len(acts) :
    /\ IsListing(acts[k]) /\ ListingOf(acts[k]).nodeAddress = address
    /\ \A h \in 1..(k - 1) :
         ~(IsListing(acts[h]) /\ ListingOf(acts[h]).nodeAddress = address)

\* C3: the Node of an address takes operator, minimumBond, bondingCapacity,
\* feePercentage and createdAt from the first listing of that address in
\* feed order, and the Nodes are in the order of those first listings.
C3_FirstListingWins ==
  NodesReturned =>
     /\ \A k \in 1..Len(ret.value) :
          LET node == ret.value[k]
              first == actions[FirstListing(actions, node.address)]
          IN /\ node.operator = ListingOf(first).operatorAddress
             /\ node.minimumBond = ListingOf(first).minRune
             /\ node.bondingCapacity = ListingOf(first).maxRune
             /\ node.feePercentage = ListingOf(first).feePercentage
             /\ node.createdAt = DateOf(first.timestamp)
     /\ \A k, l \in 1..Len(ret.value) :
          k < l => FirstListing(actions, ret.value[k].address)
                     < FirstListing(actions, ret.value[l].address)

\* NodeA is listed on two different terms with NodeB's listing in between,
\* the later terms first in the feed: the registry is NodeA on those terms,
\* then NodeB
C3_Witness ==
  /\ NodesReturned
  /\ actions = MapActions([ok |-> TRUE,
                           actions |-> Some(<<ListingA2, ListingB, ListingA>>)])
  /\ Len(ret.value) = 2
  /\ ret.value[1].operator = User
  /\ ret.value[1].minimumBond = Num(200)
  /\ ret.value[2].address = NodeB

\* the last operation step settled a getWhitelistRequests call with a result
RequestsReturned ==
  /\ ret.op = "getWhitelistRequests" /\ ret.kind = "return"
  /\ call.pc = "done"

\* the queries of the call that returned a BondInfo, and those among them
\* whose request went to the user list, respectively the operator list
Answered == SelectSeq(queries, LAMBDA q : q.bondInfo # None)
UserQueries ==
  SelectSeq(Answered, LAMBDA q : q.userAddress = call.connectedAddress)
OperatorQueries ==
  SelectSeq(Answered, LAMBDA q : q.operator = call.connectedAddress)

\* the status the claim gives to a BondInfo
StatusFits(status, bondInfo) ==
  /\ ~bondInfo.isBondProvider => status = "pending"
  /\ (bondInfo.isBondProvider /\ bondInfo.bond = Num(0)) => status = "approved"
  /\ (bondInfo.isBondProvider /\ Gt(bondInfo.bond, Num(0))) => status = "bonded"
  /\ status \in {"pending", "approved", "bonded"}

\* request k of the list was classified by query k of qs
ClassifiedBy(list, qs) ==
  /\ Len(list) = Len(qs)
  /\ \A k \in 1..Len(list) :
       /\ list[k].walletAddress = qs[k].userAddress
       /\ list[k].node.address = qs[k].nodeAddress
       /\ StatusFits(list[k].status, qs[k].bondInfo[1])

IsRequest(action) == decodeRequest(action.data.memo) # None

RequestIn(action) == decodeRequest(action.data.memo)[1]

\* the request's node is not in the registry of the cache
IsOrphan(acts, k) ==
  /\ IsRequest(acts[k])
  /\ FindNode(BuildNodes(acts), RequestIn(acts[k]).nodeAddress) = None

HasOrphan(acts) == \E k \in 1..Len(acts) : IsOrphan(acts, k)

FirstOrphan(acts) ==
  CHOOSE k \in 1..Len(acts) :
    IsOrphan(acts, k) /\ \A h \in 1..(k - 1) : ~IsOrphan(acts, h)

\* a getWhitelistRequests call on a Ready engine has settled
CallSettled == call.pc = "done" /\ isInitialized

\* C5 as claimed: if the cache holds a decodable request whose node is not
\* in the registry, getWhitelistRequests fails with 'Node not found' for
\* every viewer.
C5_OrphanIsNodeNotFound ==
  (CallSettled /\ HasOrphan(call.iter)) =>
     call.out = Throw("Node not found")

\* C5, amended: such a call never returns lists, for any viewer.  It fails
\* with 'Node not found' at the first such request, unless an oracle query
\* for an earlier request failed: then it fails there, with that error.
C5_OrphanIsFatal ==
  (CallSettled /\ HasOrphan(call.iter)) =>
     /\ call.out.kind = "throw"
     /\ \/ /\ call.out.value = "Node not found"
           /\ call.i = FirstOrphan(call.iter)
        \/ /\ call.out.value = "Failed to retrieve bond info"
           /\ call.i < FirstOrphan(call.iter)

\* a viewer who is no user and no operator gets 'Node not found' for a
\* request that follows a listing and a request of a listed node
C5_Witness ==
  /\ CallSettled
  /\ call.connectedAddress = Stranger
  /\ call.iter = MapActions([ok |-> TRUE,
                             actions |-> Some(<<ListingA, RequestUser, RequestB>>)])
  /\ call.out = Throw("Node not found")

\* the positions of the cache, in order
Positions(acts) == [k \in 1..Len(acts) |-> k]

\* the request of position k as the call has to report it, status aside
Expected(acts, k) ==
  [node |-> FindNode(BuildNodes(acts), RequestIn(acts[k]).nodeAddress)[1],
   walletAddress |-> RequestIn(acts[k]).userAddress,
   intendedBondAmount |-> RequestIn(acts[k]).amount,
   createdAt |-> DateOf(acts[k].timestamp)]

WithoutStatus(r) ==
  [node |-> r.node, walletAddress |-> r.walletAddress,
   intendedBondAmount |-> r.intendedBondAmount, createdAt |-> r.createdAt]

\* the list reports exactly the requests at the positions ps, in order
Reports(list, acts, ps) ==
  /\ Len(list) = Len(ps)
  /\ \A j \in 1..Len(ps) : WithoutStatus(list[j]) = Expected(acts, ps[j])

\* C6: a returned user list holds exactly the decodable requests of the
\* cache whose userAddress is the viewer, the operator list exactly those
\* whose node's operator is the viewer (so a request of neither kind is in
\* neither list, and one in both has userAddress = operator = viewer).
C6_ListsByRole ==
  RequestsReturned =>
     LET acts == call.iter
         viewer == call.connectedAddress
     IN /\ Reports(ret.value.user, acts,
                   SelectSeq(Positions(acts),
                             LAMBDA k : IsRequest(acts[k])
                                /\ RequestIn(acts[k]).userAddress = viewer))
        /\ Reports(ret.value.operator, acts,
                   SelectSeq(Positions(acts),
                             LAMBDA k : IsRequest(acts[k])
                                /\ Expected(acts, k).node.operator = viewer))

\* the operator sees a user's request and the own one, the latter in both
\* lists
C6_Witness ==
  /\ RequestsReturned
  /\ call.connectedAddress = Operator
  /\ Len(ret.value.operator) = 2
  /\ Len(ret.value.user) = 1
  /\ ret.value.operator[1].walletAddress = User
  /\ ret.value.user[1].walletAddress = Operator

\* C7: decoding the memo an encoder returned gives back the parameters.
C7_RoundTrip ==
  codec.pc = "decoded" => codec.decoded = Some(codec.params)

\* the memo is there, has `count` fields and the first is 'TB'
Shaped(action, count) ==
  /\ action.data.memo # None
  /\ Len(Split(action.data.memo[1])) = count
  /\ Split(action.data.memo[1])[1] = TB

\* C8: an action without memo, with another tag or with another field count
\* (6 for a listing, 4 for a request) gives getNodes no Node, and gives
\* getWhitelistRequests no request, no oracle query and no failure.
C8_UnrelatedTrafficIgnored ==
  /\ NodesReturned =>
       ret.value = BuildNodes(SelectSeq(actions, LAMBDA a : Shaped(a, 6)))
  /\ call.pc \in {"await", "done"} =>
       /\ \A k \in 1..Len(queries) : Shaped(call.iter[queries[k].at], 4)
       /\ call.pc = "await" => Shaped(call.iter[call.i], 4)
       /\ Len(call.requestsUser) <= Len(queries)
       /\ Len(call.requestsOperator) <= Len(queries)
       /\ (call.pc = "done" /\ call.out.kind = "throw" /\ isInitialized)
            => Shaped(call.iter[call.i], 4)

\* a call returns the one request of a cache whose second action is no
\* protocol memo
C8_Witness ==
  /\ RequestsReturned
  /\ Len(call.iter) = 3
  /\ ~Shaped(call.iter[2], 4) /\ ~Shaped(call.iter[2], 6)
  /\ Len(ret.value.user) = 1
  /\ Len(queries) = 1

\* the numbers of a 6-field TB memo are numbers within the ranges
InRange(listing) ==
  /\ Le(Num(0), listing.minRune)
  /\ Gt(listing.maxRune, listing.minRune)
  /\ Le(Num(0), listing.feePercentage)
  /\ Le(listing.feePercentage, Num(100))

\* C9: a 6-field TB memo whose numbers are not numbers or are out of range
\* is absent to getNodes: the registry is that of the cache without it.
C9_InvalidListingAbsent ==
  NodesReturned =>
     ret.value = BuildNodes(SelectSeq(actions,
                    LAMBDA a : Shaped(a, 6) => InRange(ListingOf(a))))

PlainCache ==
  MapActions([ok |-> TRUE, actions |-> Some(<<ListingPlain, RequestPlain>>)])

PrefixedCache ==
  MapActions([ok |-> TRUE, actions |-> Some(<<ListingA, RequestUser>>)])

OneApproved(out, user, amount) ==
  /\ out.kind = "return"
  /\ Len(out.value.user) = 1
  /\ out.value.user[1].status = "approved"
  /\ out.value.user[1].intendedBondAmount = Num(amount)
  /\ out.value.user[1].walletAddress = user

\* C10 as claimed: with the cache 'TB:thorNODE:thorOP:100:10000:5',
\* 'TB:thorNODE:thorUSER:500', getWhitelistRequests('thorUSER') returns one
\* user request, approved, of 500.
C10_PlainScenario ==
  (CallSettled /\ call.iter = PlainCache /\ call.connectedAddress = PlainUser)
     => OneApproved(call.out, PlainUser, 500)

UserBondZero ==
  NodeData(Some([providers |-> Some(<<Provider(User, <<"0">>),
                                       Provider(Operator, <<"5", "0">>)>>)]))

\* the scenario with addresses of the thor1 prefix, the oracle answering
\* the one query for (thor1N, thor1U) with thor1U as a provider of bond 0
PrefixedScenario ==
  /\ CallSettled
  /\ call.iter = PrefixedCache
  /\ call.connectedAddress = User
  /\ Len(queries) = 1
  /\ queries[1].nodeAddress = NodeA
  /\ queries[1].userAddress = User
  /\ queries[1].response = UserBondZero

\* C10, amended: with the cache 'TB:thor1N:thor1O:100:10000:5',
\* 'TB:thor1N:thor1U:500' and that oracle, getWhitelistRequests('thor1U')
\* returns exactly one user request, approved, of 500, and no operator
\* request.
C10_PrefixedScenario ==
  PrefixedScenario =>
     /\ OneApproved(call.out, User, 500)
     /\ call.out.value.user[1].node.address = NodeA
     /\ call.out.value.operator = <<>>

C10_Witness == PrefixedScenario /\ OneApproved(call.out, User, 500)


\* the constraints of C11 in the claimed order, each with the error of its
\* violation; > and <= are the comparisons of numbers
ListingConstraints(p) ==
  <<[ok |-> IsThorAddress(p.nodeAddress),
     error |-> "Invalid node address format"],
    [ok |-> IsThorAddress(p.operatorAddress),
     error |-> "Invalid operator address format"],
    [ok |-> Gt(p.minRune, Num(0)),
     error |-> "Minimum RUNE amount must be greater than 0"],
    [ok |-> Gt(p.maxRune, p.minRune),
     error |-> "Maximum RUNE amount must be greater than minimum amount"],
    [ok |-> Le(Num(0), p.feePercentage) /\ Le(p.feePercentage, Num(100)),
     error |-> "Fee percentage must be between 0 and 100"]>>

RequestConstraints(q) ==
  <<[ok |-> IsThorAddress(q.nodeAddress),
     error |-> "Invalid node address format"],
    [ok |-> IsThorAddress(q.userAddress),
     error |-> "Invalid user address format"],
    [ok |-> Gt(q.amount, Num(0)),
     error |-> "Amount must be greater than 0"]>>

\* the encoder's outcome fits the constraints: a memo iff all hold, else the
\* error of the first one violated
FitsConstraints(outcome, cs) ==
  LET violated == {k \in 1..Len(cs) : ~cs[k].ok}
  IN IF violated = {} THEN outcome.kind = "return"
     ELSE /\ outcome.kind = "throw"
          /\ outcome.value = cs[CHOOSE k \in violated :
                                  \A h \in violated : k <= h].error

Encoded == codec.pc \in {"encoded", "decoded"}

\* C11 as claimed: createListing returns a memo iff both addresses pass the
\* prefix check, minRune > 0, maxRune > minRune and 0 <= feePercentage <= 100,
\* and otherwise fails with the error of the first violated constraint;
\* createWhitelistRequest likewise with both addresses and amount > 0.
C11_EncoderValidates ==
  Encoded =>
     FitsConstraints(codec.memo,
                     IF codec.kind = "listing"
                       THEN ListingConstraints(codec.params)
                       ELSE RequestConstraints(codec.params))

\* the same over parameters whose numbers are numbers (none is NaN)
NoNaN(p) ==
  \A f \in DOMAIN p \cap {"minRune", "maxRune", "feePercentage", "amount"} :
     p[f] # NaN

C11_EncoderValidatesNumbers ==
  (Encoded /\ NoNaN(codec.params)) =>
     FitsConstraints(codec.memo,
                     IF codec.kind = "listing"
                       THEN ListingConstraints(codec.params)
                       ELSE RequestConstraints(codec.params))


BondCalled == bondCall.pc \in {"await", "done"}

\* C12: getBondInfoForUser called with a nodeAddress or a userAddress
\* without the 'thor1' prefix fails with 'Invalid THORChain address' and
\* issues no request to the node-state service.
C12_ValidationBeforeNetwork ==
  (BondCalled /\ (~IsThorAddress(bondCall.nodeAddress)
                    \/ ~IsThorAddress(bondCall.userAddress))) =>
     /\ bondCall.pc = "done"
     /\ bondCall.out = Throw("Invalid THORChain address")
     /\ bondCall.requests = <<>>

\* a call for a well-formed node and the user address 'thorUSER' was refused
C12_Witness ==
  /\ bondCall.pc = "done"
  /\ bondCall.nodeAddress = NodeA
  /\ bondCall.userAddress = PlainUser
  /\ bondCall.out.kind = "throw"
  /\ bondCall.requests = <<>>

\* the provider list of a response body, empty when the body, its
\* bond_providers or the list is missing
ProviderList(response) ==
  IF response.data = None THEN <<>>
  ELSE LET body == response.data[1]
       IN IF body.bond_providers = None THEN <<>>
          ELSE IF body.bond_providers[1].providers = None THEN <<>>
          ELSE body.bond_providers[1].providers[1]

BondAnswered ==
  bondCall.pc = "done" /\ bondCall.response # None /\ bondCall.response[1].ok

\* C13: for a successful response getBondInfoForUser returns, never fails;
\* isBondProvider is true exactly when the provider list has an entry whose
\* bond_address is userAddress, and then bond is that entry's bond;
\* otherwise, also when the list is missing, it returns {false, 0}.
C13_BondInfoFromResponse ==
  BondAnswered =>
     LET list == ProviderList(bondCall.response[1])
         matches == {k \in 1..Len(list) :
                       list[k].bond_address = bondCall.userAddress}
         info == bondCall.out.value
     IN /\ bondCall.out.kind = "return"
        /\ info.isBondProvider <=> matches # {}
        /\ info.isBondProvider =>
             \E k \in matches : info.bond = Number(list[k].bond)
        /\ ~info.isBondProvider => info.bond = Num(0)

\* the user is found behind another provider, with the bond of the entry
C13_Witness ==
  /\ BondAnswered
  /\ bondCall.userAddress = User
  /\ Len(ProviderList(bondCall.response[1])) = 3
  /\ bondCall.out = Return([isBondProvider |-> TRUE, bond |-> Num(3)])

\* a response without a provider list gave {false, 0}
C13_MissingList ==
  /\ BondAnswered
  /\ bondCall.response[1].data # None
  /\ bondCall.response[1].data[1].bond_providers = None
  /\ bondCall.out = Return([isBondProvider |-> FALSE, bond |-> Num(0)])


\* C14: initialize() invoked on a Ready engine issues no fetch and leaves
\* the cache and the flag as they are.
C14_InitializeReadyNoOp ==
  [][(isInitialized /\ ret'.op = "initialize" /\ ret'.step = "invoke") =>
        /\ inflight' = inflight
        /\ actions' = actions
        /\ isInitialized'
        /\ ret'.kind = "return"]_vars

\* initialize() has returned at once on a Ready engine with a cache
C14_Witness ==
  /\ ret.op = "initialize" /\ ret.step = "invoke" /\ ret.kind = "return"
  /\ isInitialized
  /\ actions # <<>>
  /\ inflight = 0

\* C15: refreshActions() invoked on a Ready engine leaves Ready at once and
\* issues a fetch, the cache untouched meanwhile; a fetch that succeeds makes
\* the engine Ready with the cache equal to the mapped actions of its
\* response, whatever the cache held before.
C15_RefreshReplaces ==
  [][/\ (isInitialized /\ ret'.op = "refreshActions") =>
           /\ ~isInitialized'
           /\ inflight' = inflight + 1
           /\ actions' = actions
     /\ (ret'.op = "initialize" /\ ret'.step = "resume"
           /\ ret'.kind = "return") =>
           /\ isInitialized'
           /\ actions' = MapActions(ret'.arg)]_vars

\* a refresh of an engine with a cache is under way
C15_Witness ==
  /\ ret.op = "refreshActions"
  /\ ~isInitialized
  /\ actions # <<>>
  /\ inflight = 1

\* a fetch has replaced a cache by a shorter one: the engine is Ready with an
\* empty cache
C15_Replaced ==
  /\ ret.op = "initialize" /\ ret.step = "resume" /\ ret.kind = "return"
  /\ ret.arg.actions = Some(<<>>)
  /\ isInitialized
  /\ actions = <<>>

\* C16 as claimed: the cache of a Ready engine does not change; it changes
\* only after a refresh has left Ready.
C16_SingleWriter == [][isInitialized => actions' = actions]_vars


\* the call in progress has been suspended on an oracle query
WasSuspended == call.pc = "await" \/ (call.pc = "done" /\ queries # <<>>)

\* C17 as claimed: a getWhitelistRequests call that was suspended on an
\* oracle query, whatever refreshActions() did meanwhile, resolves every
\* request against the registry of the Action list it iterates, and fails
\* neither with the not-initialized error nor with 'Node not found' for a
\* request whose node that list does list.
C17_SnapshotConsistent ==
  WasSuspended =>
     /\ call.pc = "await" =>
          Some(call.node) =
            FindNode(BuildNodes(call.iter),
                     decodeRequest(call.iter[call.i].data.memo)[1].nodeAddress)
     /\ (call.pc = "done" /\ call.out.kind = "throw") =>
          /\ call.out.value # NotInitialized
          /\ call.out.value = "Node not found" => IsOrphan(call.iter, call.i)


\* the action at position k is a decodable request of a listed node that
\* names the viewer as its user or whose node the viewer operates
QualifiesAt(acts, k, viewer) ==
  /\ IsRequest(acts[k])
  /\ ~IsOrphan(acts, k)
  /\ \/ RequestIn(acts[k]).userAddress = viewer
     \/ Expected(acts, k).node.operator = viewer

\* a call on a Ready engine is in progress or has settled
CallStarted ==
  /\ call.pc \in {"await", "done"}
  /\ ~(call.pc = "done" /\ FailedNotInitialized(call.out))

\* the positions of the feed the call has dealt with: those before the one
\* it is suspended at, all of them if it returned, those up to the one it
\* failed at
Handled ==
  IF call.pc = "await" THEN call.i - 1
  ELSE IF call.out.kind = "return" THEN Len(call.iter)
  ELSE call.i

\* C18: one oracle query has been issued for each qualifying request the
\* call has dealt with, none for any other action, in feed order and with
\* the request's node and user; the query the call is suspended on is the
\* only one pending and is for the next qualifying request.
C18_OneQueryPerRequest ==
  CallStarted =>
     LET acts == call.iter
         viewer == call.connectedAddress
         due == SelectSeq(Positions(acts),
                          LAMBDA k : k <= Handled
                                       /\ QualifiesAt(acts, k, viewer))
     IN /\ Len(queries) = Len(due)
        /\ \A j \in 1..Len(due) :
             /\ queries[j].at = due[j]
             /\ queries[j].nodeAddress = RequestIn(acts[due[j]]).nodeAddress
             /\ queries[j].userAddress = RequestIn(acts[due[j]]).userAddress
        /\ call.pc = "await" =>
             /\ QualifiesAt(acts, call.i, viewer)
             /\ call.node.address = RequestIn(acts[call.i]).nodeAddress
             /\ call.userAddress = RequestIn(acts[call.i]).userAddress

\* a call has returned after two queries for the same (node, user) pair,
\* one for each of two requests
C18_Witness ==
  /\ RequestsReturned
  /\ Len(queries) = 2
  /\ queries[1].nodeAddress = queries[2].nodeAddress
  /\ queries[1].userAddress = queries[2].userAddress
  /\ queries[1].at < queries[2].at


FetchError == "Failed to retrieve bond info"

\* C19: a failed oracle query is the last query of its call (no retry of
\* it, no query for a later request), and the call has failed with
\* 'Failed to retrieve bond info', returning no lists.
C19_OracleFailureAborts ==
  \A k \in 1..Len(queries) :
     ~queries[k].response.ok =>
        /\ k = Len(queries)
        /\ call.pc = "done"
        /\ call.out = Throw(FetchError)
        /\ ret.kind = "throw" /\ ret.value = FetchError

\* the query of the first of two qualifying requests failed: the call is
\* over after that one query
C19_Witness ==
  /\ call.pc = "done"
  /\ call.out = Throw(FetchError)
  /\ Len(queries) = 1
  /\ ~queries[1].response.ok
  /\ \E k \in (queries[1].at + 1)..Len(call.iter) :
        QualifiesAt(call.iter, k, call.connectedAddress)


\* the action carries a 4-field TB memo whose amount is not a number above 0
BadAmount(action) ==
  /\ Shaped(action, 4)
  /\ LET amount == Number(Split(action.data.memo[1])[4])
     IN amount = NaN \/ amount[1] <= 0

\* C20: a 4-field TB memo whose amount is non-numeric, zero or negative
\* gets no oracle query, is not what the call fails with 'Node not found'
\* at, and yields no request (every request of the lists has an amount
\* above 0).
C20_BadAmountSkipped ==
  CallStarted =>
     /\ \A j \in 1..Len(queries) : ~BadAmount(call.iter[queries[j].at])
     /\ call.pc = "await" => ~BadAmount(call.iter[call.i])
     /\ (call.pc = "done" /\ call.out = Throw("Node not found"))
          => ~BadAmount(call.iter[call.i])
     /\ \A j \in 1..Len(call.requestsUser) :
          Gt(call.requestsUser[j].intendedBondAmount, Num(0))
     /\ \A j \in 1..Len(call.requestsOperator) :
          Gt(call.requestsOperator[j].intendedBondAmount, Num(0))

\* a call has returned a request although a memo before it names an
\* unlisted node with an amount that is no number above 0
C20_Witness ==
  /\ RequestsReturned
  /\ Len(ret.value.user) = 1
  /\ \E k \in 1..(queries[1].at - 1) :
        /\ BadAmount(call.iter[k])
        /\ FindNode(BuildNodes(call.iter),
                    Split(call.iter[k].data.memo[1])[2]) = None


\* the step in which a pending initialize() (of its own or of a
\* refreshActions()) settles
FetchFailed == ret'.op = "initialize" /\ ret'.step = "resume" /\ ret'.kind = "throw"
FetchSucceeded ==
  ret'.op = "initialize" /\ ret'.step = "resume" /\ ret'.kind = "return"

C21_ReadAfterFailure ==
  /\ ret.op \in ReadOps /\ FailedNotInitialized(ret)
  /\ ~isInitialized
  /\ actions # <<>>
  /\ inflight = 0


\* a refreshActions() is invoked
RefreshInvoked == ret'.op = "refreshActions" /\ ret'.step = "invoke"

\* C22: with an indexer that answers every fetch successfully, calls of
\* initialize() and refreshActions() keep completing for as long as some
\* call is pending (if a call is pending for ever, completions happen
\* again and again), and if refreshes stop being invoked, every pending
\* call is completed and the engine is Ready from some point on for ever.
C22_EventuallyReady ==
  /\ (<>[](inflight > 0)) => []<><<FetchSucceeded>>_vars
  /\ (<>[][~RefreshInvoked]_vars) =>
       (inflight > 0 ~> [](inflight = 0 /\ isInitialized))

\* a refresh was pending and its fetch has returned: the call is complete
\* and the engine is Ready again with the cache of that response
C22_Witness ==
  /\ ret.op = "initialize" /\ ret.step = "resume" /\ ret.kind = "return"
  /\ ret.arg.actions # None
  /\ isInitialized
  /\ inflight = 0
  /\ actions # <<>>

====
